---- MODULE Spec2Model ----
(***************************************************************************)
(* Model of the terminal progress dashboard (src/src/main.rs): two         *)
(* producer threads (keyboard input, progress ticker) send Events over one *)
(* mpsc channel to the consumer loop App::run, which owns the App state.   *)
(*                                                                         *)
(* f64 values are modelled exactly.  Every value the ticker can hold is a  *)
(* multiple of 2^-59 below 2^60 * 2^-59, so a value is the integer number  *)
(* of 2^-59 units, written in three base-2^20 limbs <<hi, mid, lo>>.       *)
(***************************************************************************)
EXTENDS Integers, Sequences, FiniteSets

VARIABLES exit, progress_bar_color, background_progress,
          pc, terminal, result,
          chan, rxAlive,
          inputAlive, tickerProgress,
          ticks, reads,
          sentInput, recvInput, sentTicker, recvTicker,
          toggleHist, colorsSeen,
          draws, drawn, drawFailed, readFailed, updateAfterFail

appVars == <<exit, progress_bar_color, background_progress>>

vars == <<exit, progress_bar_color, background_progress,
          pc, terminal, result, chan, rxAlive, inputAlive, tickerProgress,
          ticks, reads, sentInput, recvInput, sentTicker, recvTicker,
          toggleHist, colorsSeen, draws, drawn, drawFailed, readFailed,
          updateAfterFail>>

(* ---- bounds of the model ---------------------------------------------- *)

\* events the channel may hold at once (the real channel is unbounded)
MaxQueue == 2

\* ticks the Ticker Producer performs while the user is at the keyboard
MaxTicks == 3

\* ticks the Ticker Producer performs in a run without input (LongSpec)
MaxRun == 150

\* input events the Input Producer reads
MaxReads == 3

\* key events the Input Producer reads in a run that ends in a failed read
\* (FailSpec)
MaxFailKeys == 1

(* ---- f64 arithmetic ---------------------------------------------------- *)

\* limb base, 2^20
Base == 1048576

\* 0.0
F64Zero == <<0, 0, 0>>

\* 1.0 = 2^59 units
F64One == <<524288, 0, 0>>

\* the literal 0.01 is the double 0x3F847AE147AE147B = 5764607523034235 * 2^-59
F64Step == <<5242, 922746, 922747>>

\* carry propagation of a limb triple whose limbs may exceed the base
Normalize(x) ==
    LET lo  == x[3] % Base
        m   == x[2] + (x[3] \div Base)
        mid == m % Base
        hi  == x[1] + (m \div Base)
    IN  <<hi, mid, lo>>

\* x < y on normalized triples
F64Less(x, y) ==
    \/ x[1] < y[1]
    \/ x[1] = y[1] /\ x[2] < y[2]
    \/ x[1] = y[1] /\ x[2] = y[2] /\ x[3] < y[3]

\* spacing of doubles (in 2^-59 units) around a value whose top limb is hi:
\* 53 significant bits, so 1 below 2^53 units and doubling per binade above
Ulp(hi) ==
    IF hi < 2^13 THEN 1
    ELSE IF hi < 2^14 THEN 2
    ELSE IF hi < 2^15 THEN 4
    ELSE IF hi < 2^16 THEN 8
    ELSE IF hi < 2^17 THEN 16
    ELSE IF hi < 2^18 THEN 32
    ELSE IF hi < 2^19 THEN 64
    ELSE 128

\* round an exact value to the nearest double, ties to even
RoundNearestEven(x) ==
    LET u    == Ulp(x[1])
        r    == x[3] % u
        odd  == ((x[3] \div u) % 2) = 1
        up   == (2 * r > u) \/ (2 * r = u /\ odd)
    IN  IF up THEN Normalize(<<x[1], x[2], x[3] + (u - r)>>)
              ELSE <<x[1], x[2], x[3] - r>>

\* f64 addition: exact sum, then one rounding
F64Add(x, y) ==
    RoundNearestEven(Normalize(<<x[1] + y[1], x[2] + y[2], x[3] + y[3]>>))

\* f64::min
F64Min(x, y) == IF F64Less(y, x) THEN y ELSE x

\* the value rounded to whole hundredths: floor(100 * x + 1/2)
Hundredths(x) ==
    LET p == Normalize(<<100 * x[1], 100 * x[2], 100 * x[3]>>)
    IN  (p[1] + 2^18) \div 2^19

(* ---- colors and events ------------------------------------------------- *)

\* Color::default() of ratatui
Reset == "Reset"

\* the two colors of the toggle
Primary == "Green"

Secondary == "Yellow"

Colors == {Reset, Primary, Secondary}

KeyCodes == {"q", "c", "x"}

KeyKinds == {"Press", "Release"}

Input(code, kind) == [type |-> "Input", code |-> code, kind |-> kind]

Progress(p) == [type |-> "Progress", value |-> p]

(* ---- the channel ------------------------------------------------------- *)

\* mutant: a stack in place of a queue
SendFront(q, e) == IF rxAlive THEN <<e>> \o q ELSE q

\* tx.send(e): queued while the receiver exists, an ignored error afterwards
Send(q, e) == IF rxAlive THEN Append(q, e) ELSE q

\* the events of one producer among a sequence of events, in order
RECURSIVE OfType(_, _)
OfType(q, t) ==
    IF q = <<>> THEN <<>>
    ELSE IF Head(q).type = t THEN <<Head(q)>> \o OfType(Tail(q), t)
    ELSE OfType(Tail(q), t)

(* ---- initial state: main() up to the call of app.run ------------------- *)

Init ==
    /\ exit = FALSE
    /\ progress_bar_color = Reset
    /\ background_progress = F64Zero
    /\ pc = "draw"
    /\ terminal = "raw"
    /\ result = "None"
    /\ chan = <<>>
    /\ rxAlive = TRUE
    /\ inputAlive = TRUE
    /\ tickerProgress = F64Zero
    /\ ticks = 0
    /\ reads = 0
    /\ sentInput = <<>>
    /\ recvInput = <<>>
    /\ sentTicker = <<>>
    /\ recvTicker = <<>>
    /\ toggleHist = <<>>
    /\ colorsSeen = {Reset}
    /\ draws = 0
    /\ drawn = <<>>
    /\ drawFailed = FALSE
    /\ readFailed = FALSE
    /\ updateAfterFail = FALSE

(* ---- Input Producer: handle_input_event -------------------------------- *)

\* mutant: a ticker without its loop, returning after the first send
tickerReturns == tickerProgress = F64Zero

\* the Ticker Producer's loop has no exit: its Sender is never dropped
tickerAlive == TRUE

\* the process is running: main has not returned
ProcessAlive == pc # "exited"

\* read() returns a key event, which is sent whatever its kind
InputKeyUpTo(bound) ==
    /\ ProcessAlive /\ inputAlive
    /\ reads < bound /\ Len(chan) < MaxQueue
    /\ \E code \in KeyCodes, kind \in KeyKinds :
          /\ chan' = Send(chan, Input(code, kind))
          /\ sentInput' = Append(sentInput, Input(code, kind))
    /\ reads' = reads + 1
    /\ UNCHANGED <<exit, progress_bar_color, background_progress, pc, terminal,
                   result, rxAlive, inputAlive, tickerProgress, ticks,
                   recvInput, sentTicker, recvTicker, toggleHist, colorsSeen,
                   draws, drawn, drawFailed, readFailed,
                   updateAfterFail>>

InputKey == InputKeyUpTo(MaxReads)

FailInputKey == InputKeyUpTo(MaxFailKeys)

\* read() returns an event that is not a key event (mouse, resize, ...)
InputOther ==
    /\ ProcessAlive /\ inputAlive
    /\ reads < MaxReads
    /\ reads' = reads + 1
    /\ UNCHANGED <<exit, progress_bar_color, background_progress, pc, terminal,
                   result, chan, rxAlive, inputAlive, tickerProgress, ticks,
                   sentInput, recvInput, sentTicker, recvTicker, toggleHist,
                   colorsSeen, draws, drawn, drawFailed, readFailed,
                   updateAfterFail>>

\* mutant: a loop that reads again after a failed read
ReadsAfterError == TRUE

\* whether the thread goes on after a failed read: `while let Ok(..)` ends
AliveAfterReadError == FALSE

\* read() fails: the while-let ends and the thread returns, dropping tx_input
InputReadFails ==
    /\ ProcessAlive /\ inputAlive
    /\ inputAlive' = AliveAfterReadError
    /\ readFailed' = TRUE
    /\ UNCHANGED <<exit, progress_bar_color, background_progress, pc, terminal,
                   result, chan, rxAlive, tickerProgress, ticks, reads,
                   sentInput, recvInput, sentTicker, recvTicker, toggleHist,
                   colorsSeen, draws, drawn, drawFailed, updateAfterFail>>

(* ---- Ticker Producer: run_background_thread ---------------------------- *)

\* mutant: the step left out
NextProgressNoStep(p) == F64Min(p, F64One)

\* mutant: the clamp left out
NextProgressUnclamped(p) == F64Add(p, F64Step)

\* mutant: the clamp applied before the step is added
NextProgressClampFirst(p) == F64Add(F64Min(p, F64One), F64Step)

\* progress = (progress + 0.01).min(1.0)
NextProgress(p) == F64Min(F64Add(p, F64Step), F64One)

\* mutant: the ticker writes the field of the App itself
AppProgressShared(p, old) == p

\* the progress of the App after a tick with value p: the thread owns only
\* tx and its local `progress`, the App is not reachable from it
AppProgressAfterTick(p, old) == old

TickUpTo(bound) ==
    /\ ProcessAlive /\ tickerAlive
    /\ ticks < bound /\ Len(chan) < MaxQueue
    /\ tickerProgress' = NextProgress(tickerProgress)
    /\ chan' = Send(chan, Progress(tickerProgress'))
    /\ sentTicker' = Append(sentTicker, Progress(tickerProgress'))
    /\ ticks' = ticks + 1
    /\ background_progress' =
          AppProgressAfterTick(tickerProgress', background_progress)
    /\ UNCHANGED <<exit, progress_bar_color, pc, terminal,
                   result, rxAlive, inputAlive, reads, sentInput, recvInput,
                   recvTicker, toggleHist, colorsSeen,
                   draws, drawn, drawFailed, readFailed,
                   updateAfterFail>>

Tick == TickUpTo(MaxTicks)

LongTick == TickUpTo(MaxRun)

(* ---- consumer: App::run and App::handle_key ---------------------------- *)

\* the match on progress_bar_color of the 'c' arm
ToggleColor(c) == IF c = "Green" THEN "Yellow" ELSE "Green"

\* mutant: the kind of the key event not tested
KeyExitAnyKind(key, e) == IF key.code = "q" THEN TRUE ELSE e

\* the exit flag after handle_key(key)
KeyExit(key, e) ==
    IF key.kind = "Press" /\ key.code = "q" THEN TRUE ELSE e

\* mutant: the kind of the key event not tested
KeyColorAnyKind(key, c) == IF key.code = "c" THEN ToggleColor(c) ELSE c

\* mutant: every pressed key toggles
KeyColorAnyKey(key, c) == IF key.kind = "Press" THEN ToggleColor(c) ELSE c

\* the color after handle_key(key)
KeyColor(key, c) ==
    IF key.kind = "Press" /\ key.code = "c" THEN ToggleColor(c) ELSE c

\* mutant: the update added to the old value
HandleProgressAccumulate(p, old) == F64Add(old, p)

\* the Progress arm: self.background_progress = p
HandleProgress(p, old) == p

\* whether handle_key(key) reaches the println! of the quit notice
PrintsNotice(key) == key.kind = "Press" /\ key.code = "q"

\* history kept for the properties: the last two colors a toggle started from
Remember(h, c) == IF Len(h) < 2 THEN Append(h, c) ELSE <<h[2], c>>

\* mutant: `app.run(..)?` in main, an error leaving main before restore
AfterRunPropagate(r) == IF r = "Err" THEN "exited" ELSE "restore"

\* where main continues once run has returned r: `let result = app.run(..)`
\* keeps an error as a value, so ratatui::restore() is the next call either way
AfterRun(r) == "restore"

\* mutant: a loop that does not test the flag
LoopForever(e) == TRUE

\* the loop test: while !self.exit
LoopContinues(e) == ~e

\* run returns r; rx, which run owns, is dropped with the events it holds
Return(r) ==
    /\ pc' = AfterRun(r)
    /\ result' = r
    /\ rxAlive' = FALSE
    /\ chan' = <<>>
    /\ UNCHANGED terminal

\* the main thread panics with outcome r: the panic hook installed by
\* ratatui::init restores the terminal, the unwinding drops rx, and the
\* process ends without run returning
Panics(r) ==
    /\ pc' = "exited"
    /\ result' = r
    /\ terminal' = "restored"
    /\ rxAlive' = FALSE
    /\ chan' = <<>>

\* what a draw paints of the App: the gauge color and the progress
Rendered == <<progress_bar_color, background_progress>>

\* mutant: the result of draw thrown away
PropagatesNever(ok) == FALSE

\* the `?` after terminal.draw(..): run returns at once when draw failed
Propagates(ok) == ~ok

\* mutant: the loop goes from the handled event to the next recv
LoopStartRecv == "recv"

\* where the loop body starts: terminal.draw
LoopStart == "draw"

\* terminal.draw(..)?: on failure run returns the error
Draw ==
    /\ pc = "draw"
    /\ \E ok \in BOOLEAN :
          /\ IF Propagates(ok)
             THEN Return("Err")
             ELSE /\ pc' = "recv"
                  /\ UNCHANGED <<result, rxAlive, chan, terminal>>
          /\ IF ok
             THEN /\ draws' = draws + 1
                  /\ drawn' = Rendered
                  /\ UNCHANGED drawFailed
             ELSE /\ drawFailed' = TRUE
                  /\ UNCHANGED <<draws, drawn>>
    /\ UNCHANGED <<exit, progress_bar_color, background_progress,
                   inputAlive, tickerProgress, ticks, reads, sentInput,
                   recvInput, sentTicker, recvTicker, toggleHist, colorsSeen,
                   readFailed,
                   updateAfterFail>>

\* rx.recv().unwrap(), the match on the event, and the loop test that follows;
\* the println! of the quit notice panics when stdout cannot be written, after
\* exit was set
Recv ==
    /\ pc = "recv"
    /\ IF chan # <<>>
       THEN LET e == Head(chan)
                newExit == IF e.type = "Input" THEN KeyExit(e, exit) ELSE exit
                newColor == IF e.type = "Input"
                            THEN KeyColor(e, progress_bar_color)
                            ELSE progress_bar_color
                toggled == e.type = "Input" /\ e.kind = "Press" /\ e.code = "c"
                printing == e.type = "Input" /\ PrintsNotice(e)
            IN  /\ exit' = newExit
                /\ progress_bar_color' = newColor
                /\ background_progress' =
                      IF e.type = "Progress"
                      THEN HandleProgress(e.value, background_progress)
                      ELSE background_progress
                /\ recvInput' = IF e.type = "Input" THEN Append(recvInput, e)
                                                    ELSE recvInput
                /\ recvTicker' = IF e.type = "Progress"
                                 THEN Append(recvTicker, e) ELSE recvTicker
                /\ toggleHist' = IF toggled
                                 THEN Remember(toggleHist, progress_bar_color)
                                 ELSE toggleHist
                /\ colorsSeen' = colorsSeen \cup {newColor}
                /\ updateAfterFail' =
                      (updateAfterFail \/ (readFailed /\ e.type = "Progress"))
                /\ \E written \in BOOLEAN :
                      /\ ~printing => written
                      /\ IF ~written
                         THEN Panics("PrintPanic")
                         ELSE IF ~LoopContinues(newExit)
                         THEN Return("Ok")
                         ELSE /\ pc' = LoopStart
                              /\ chan' = Tail(chan)
                              /\ UNCHANGED <<result, rxAlive, terminal>>
       ELSE \* every Sender dropped: recv() is Err, unwrap panics, and the
            \* panic hook installed by ratatui::init restores the terminal
            /\ ~inputAlive /\ ~tickerAlive
            /\ pc' = "exited"
            /\ result' = "Panic"
            /\ terminal' = "restored"
            /\ rxAlive' = FALSE
            /\ UNCHANGED <<exit, progress_bar_color, background_progress, chan,
                           recvInput, recvTicker, toggleHist, colorsSeen,
                           updateAfterFail>>
    /\ UNCHANGED <<inputAlive, tickerProgress, ticks, reads, sentInput,
                   sentTicker, draws, drawn, drawFailed, readFailed>>

\* mutant: main swallows the error of run
MainResultOk(r) == "Ok"

\* the value main returns: the result of run, as it is
MainResult(r) == r

\* ratatui::restore(), then main returns result and the process ends
Restore ==
    /\ pc = "restore"
    /\ terminal' = "restored"
    /\ result' = MainResult(result)
    /\ pc' = "exited"
    /\ UNCHANGED <<exit, progress_bar_color, background_progress, chan,
                   rxAlive, inputAlive, tickerProgress, ticks, reads,
                   sentInput, recvInput, sentTicker, recvTicker, toggleHist,
                   colorsSeen, draws, drawn, drawFailed, readFailed,
                   updateAfterFail>>

\* exit status of the process: 0 and 1 for the value main returns, 101 when
\* the main thread panicked
ExitCode(r) == IF r = "Ok" THEN 0 ELSE IF r = "Err" THEN 1 ELSE 101

Next ==
    \/ InputKey
    \/ InputOther
    \/ InputReadFails
    \/ Tick
    \/ Draw
    \/ Recv
    \/ Restore

Spec == Init /\ [][Next]_vars

\* the runs in which the input source delivers nothing
LongNext ==
    \/ LongTick
    \/ Draw
    \/ Recv
    \/ Restore

LongSpec == Init /\ [][LongNext]_vars

\* the same runs with every thread scheduled: the ticker wakes from its
\* sleep, the consumer returns from draw and from recv
FairLongSpec ==
    /\ LongSpec
    /\ WF_vars(LongTick)
    /\ WF_vars(Draw)
    /\ WF_vars(Recv)

\* the runs in which the input source delivers a few keys and then fails
FailNext ==
    \/ FailInputKey
    \/ InputReadFails
    \/ Tick
    \/ Draw
    \/ Recv
    \/ Restore

FailSpec == Init /\ [][FailNext]_vars

\* the same runs with the ticker and the consumer scheduled; the input
\* source owes nothing: a key or a failure may never come
FairFailSpec ==
    /\ FailSpec
    /\ WF_vars(Tick)
    /\ WF_vars(Draw)
    /\ WF_vars(Recv)

TypeOK ==
    /\ exit \in BOOLEAN
    /\ progress_bar_color \in Colors
    /\ pc \in {"draw", "recv", "restore", "exited"}
    /\ terminal \in {"raw", "restored"}
    /\ result \in {"None", "Ok", "Err", "Panic", "PrintPanic"}
    /\ Len(chan) <= MaxQueue

(* ---- helpers of the properties ----------------------------------------- *)

Last(q) == q[Len(q)]

IsPrefix(a, b) == Len(a) <= Len(b) /\ a = SubSeq(b, 1, Len(a))

Min(a, b) == IF a < b THEN a ELSE b

\* the consumer is about to take the event at the head of the channel
Handling == pc = "recv" /\ chan # <<>>

(* ---- C1 ----------------------------------------------------------------- *)

\* C1: a step of the consumer that handles a pressed 'q' sets exit and ends
\* the loop (run returns Ok, or the quit notice cannot be printed and the
\* main thread panics); from then on exit stays true, the loop is never re-entered, the
\* App state does not change and no event is handled, whatever is still sent.
C1_QuitIsFinal ==
    [][ /\ (Handling /\ Head(chan) = Input("q", "Press") /\ pc' # pc)
            => /\ exit'
               /\ \/ pc' = "restore" /\ result' = "Ok"
                  \/ pc' = "exited" /\ result' = "PrintPanic"
        /\ exit => /\ exit'
                   /\ pc' \notin {"draw", "recv"}
                   /\ appVars' = appVars
                   /\ recvInput' = recvInput
                   /\ recvTicker' = recvTicker ]_vars

\* the quit was handled with a toggled color and a progress above 0.0, and an
\* event sent after it was never handled
C1_Witness ==
    /\ exit /\ pc = "exited"
    /\ Last(recvInput) = Input("q", "Press")
    /\ progress_bar_color = Primary
    /\ background_progress # F64Zero
    /\ Len(sentInput) > Len(recvInput)

(* ---- C2 ----------------------------------------------------------------- *)

\* C2: after two consecutive toggles the color is the color the first of the
\* two started from.
C2_DoubleToggleRestores ==
    Len(toggleHist) = 2 => progress_bar_color = toggleHist[1]

(* ---- C3 ----------------------------------------------------------------- *)

\* C3: over a run the color takes no more than two distinct values.
C3_TwoColors == Cardinality(colorsSeen) <= 2

(* ---- C4 ----------------------------------------------------------------- *)

\* C4: the progress of the App never decreases in a step, never exceeds 1.0,
\* and stays 1.0 once it is 1.0.
C4_ProgressMonotone ==
    [][ /\ ~F64Less(background_progress', background_progress)
        /\ ~F64Less(F64One, background_progress')
        /\ background_progress = F64One => background_progress' = F64One ]_vars

\* the App holds 1.0 and has handled updates after the one that brought it
C4_Witness ==
    /\ background_progress = F64One
    /\ Len(recvTicker) > 100
    /\ recvTicker[100].value = F64One
    /\ recvTicker[99].value # F64One

(* ---- C5 ----------------------------------------------------------------- *)

\* C5: the value sent on the n-th tick is min(n, 100) hundredths, and is the
\* double 1.0 itself from the 100th tick on.
C5_TickValue ==
    /\ Len(sentTicker) = ticks
    /\ \A n \in 1..Len(sentTicker) :
          /\ Hundredths(sentTicker[n].value) = Min(n, 100)
          /\ n >= 100 => sentTicker[n].value = F64One
          /\ n < 100 => F64Less(sentTicker[n].value, F64One)

\* 150 ticks done, the last value 1.0
C5_Witness == ticks = 150 /\ sentTicker[150].value = F64One

(* ---- C6 ----------------------------------------------------------------- *)

\* C6: what the consumer has received from a producer is a prefix of what
\* that producer sent, in send order; while the consumer is Running every
\* sent event is either received or pending, once.
C6_ChannelFifo ==
    /\ IsPrefix(recvInput, sentInput)
    /\ IsPrefix(recvTicker, sentTicker)
    /\ rxAlive => /\ sentInput = recvInput \o OfType(chan, "Input")
                  /\ sentTicker = recvTicker \o OfType(chan, "Progress")

\* both producers have events received and events pending
C6_Witness ==
    /\ rxAlive
    /\ recvInput # <<>> /\ recvTicker # <<>>
    /\ OfType(chan, "Input") # <<>> /\ OfType(chan, "Progress") # <<>>

(* ---- C7 ----------------------------------------------------------------- *)

\* C7: the progress of the App is the value of the last ProgressUpdate
\* handled, and 0.0 before the first.
C7_LastWriteWins ==
    background_progress =
        IF recvTicker = <<>> THEN F64Zero ELSE Last(recvTicker).value

\* several updates handled, with keys handled among them, still Running
C7_Witness ==
    /\ ~exit /\ pc = "draw"
    /\ Len(recvTicker) >= 3 /\ Len(recvInput) >= 2
    /\ background_progress = Last(sentTicker).value

(* ---- C8 ----------------------------------------------------------------- *)

\* C8: handling a pressed 'c' turns Primary into Secondary and Secondary into
\* Primary and leaves progress and exit alone; handling a ProgressUpdate
\* leaves color and exit alone; handling a pressed 'q' leaves color and
\* progress alone.
C8_Frame ==
    [][ (Handling /\ pc' # pc) =>
          LET e == Head(chan) IN
          /\ e = Input("c", "Press") =>
                /\ progress_bar_color = Primary =>
                      progress_bar_color' = Secondary
                /\ progress_bar_color = Secondary =>
                      progress_bar_color' = Primary
                /\ progress_bar_color' # progress_bar_color
                /\ UNCHANGED <<background_progress, exit>>
          /\ e.type = "Progress" => UNCHANGED <<progress_bar_color, exit>>
          /\ e = Input("q", "Press") =>
                UNCHANGED <<progress_bar_color, background_progress>> ]_vars

\* a toggle from Secondary back to Primary, with a progress above 0.0
C8_Witness ==
    /\ Len(toggleHist) = 2 /\ toggleHist[2] = Secondary
    /\ progress_bar_color = Primary
    /\ background_progress # F64Zero

(* ---- C9 ----------------------------------------------------------------- *)

\* C9: when the process has ended the terminal is restored.
C9_TerminalRestored == pc = "exited" => terminal = "restored"

\* the process ended on a draw failure after handling events
C9_Witness ==
    /\ pc = "exited" /\ result = "Err" /\ terminal = "restored"
    /\ recvInput # <<>> /\ recvTicker # <<>>

(* ---- C10 ---------------------------------------------------------------- *)

\* C10 as stated: every ended process has exit code 0.
C10_AlwaysZero == pc = "exited" => ExitCode(result) = 0

\* C10 amended: the process ends with exit code 0 exactly when it ends by a
\* handled quit whose notice was printed; a quit whose notice cannot be
\* printed ends it by a panic, exit code 101; when it ends on a draw failure
\* main returns the error and the exit code is 1.
C10_ExitCode ==
    pc = "exited" =>
        /\ exit => \/ result = "Ok" /\ ExitCode(result) = 0
                   \/ result = "PrintPanic" /\ ExitCode(result) = 101
        /\ ~exit => result = "Err" /\ ExitCode(result) = 1
        /\ result \in {"Ok", "PrintPanic"} =>
              /\ recvInput # <<>>
              /\ Last(recvInput) = Input("q", "Press")
              /\ ~drawFailed

\* the process ended by a quit whose notice could not be printed, after an
\* update was handled: a failure result with the terminal restored
C10_Witness ==
    /\ pc = "exited" /\ exit /\ ExitCode(result) = 101
    /\ Last(recvInput) = Input("q", "Press")
    /\ recvTicker # <<>> /\ terminal = "restored"

(* ---- C11 ---------------------------------------------------------------- *)

\* C11 as stated: every Input event sent to the channel or received by the
\* consumer is a key press.
C11_OnlyPressesSent ==
    /\ \A i \in 1..Len(sentInput) : sentInput[i].kind = "Press"
    /\ \A i \in 1..Len(recvInput) : recvInput[i].kind = "Press"

\* C11 amended: the Input Producer forwards every key event it reads, of any
\* kind; the kind is tested by the consumer, where only a key event of kind
\* Press changes exit or the color.
C11_FilterInConsumer ==
    [][ /\ (sentInput' # sentInput /\ rxAlive) =>
              /\ Last(sentInput') \in {Input(c, k) : c \in KeyCodes, k \in KeyKinds}
              /\ chan' = Append(chan, Last(sentInput'))
        /\ (Handling /\ Head(chan).type = "Input" /\ appVars' # appVars) =>
              Head(chan).kind = "Press" ]_vars

\* releases of 'q' and of 'c' reached the consumer and changed nothing
C11_Witness ==
    /\ recvInput = <<Input("c", "Release"), Input("q", "Release")>>
    /\ ~exit /\ progress_bar_color = Reset /\ pc = "draw"

(* ---- C12 ---------------------------------------------------------------- *)

\* C12: handling a key event that is not a press of 'q' or 'c' changes none
\* of exit, color and progress, is no error, and leaves the consumer Running
\* at the head of its loop.
C12_OtherKeysIgnored ==
    [][ (/\ Handling /\ pc' # pc
         /\ Head(chan).type = "Input"
         /\ ~(Head(chan).kind = "Press" /\ Head(chan).code \in {"q", "c"}))
        => /\ appVars' = appVars
           /\ pc' = "draw" /\ result' = "None" /\ rxAlive'
           /\ chan' = Tail(chan) ]_vars

\* a pressed other key and a released 'q' were handled and the next event,
\* a ProgressUpdate, was handled after them
C12_Witness ==
    /\ recvInput = <<Input("x", "Press"), Input("q", "Release")>>
    /\ recvTicker # <<>> /\ background_progress # F64Zero
    /\ ~exit /\ progress_bar_color = Reset /\ pc = "draw"

(* ---- helpers of C13..C18 ------------------------------------------------ *)

\* events the consumer has handled
Handled == Len(recvInput) + Len(recvTicker)

Running == pc \in {"draw", "recv"}

\* a step of one of the two producers
ProducerStep ==
    \/ sentInput' # sentInput
    \/ reads' # reads
    \/ inputAlive' # inputAlive
    \/ ticks' # ticks

\* no pressed 'q' is waiting in the channel
NoQuitPending == \A i \in 1..Len(chan) : chan[i] # Input("q", "Press")

(* ---- C13 ---------------------------------------------------------------- *)

\* C13: the consumer waits in recv only after a draw of the state all handled
\* events produced, one draw more than events handled; at the head of the
\* loop and after the loop has ended the draws equal the events handled, so
\* no draw follows the quit.
C13_DrawRecvHandle ==
    /\ pc = "recv" => draws = Handled + 1 /\ drawn = Rendered
    /\ pc # "recv" => draws = Handled
    /\ exit => draws = Handled /\ result \in {"Ok", "PrintPanic"}
    /\ (exit /\ pc = "restore") => result = "Ok"

\* the loop ended by a quit after three events, each preceded by a draw
C13_Witness ==
    /\ pc = "exited" /\ result = "Ok" /\ exit
    /\ Handled = 3 /\ draws = 3
    /\ recvTicker # <<>>
    /\ drawn = <<Primary, Last(recvTicker).value>>

(* ---- C14 ---------------------------------------------------------------- *)

\* C14: the step in which a draw fails ends run with the error and changes
\* nothing of the App; afterwards no event is handled, no draw is made, the
\* loop is not re-entered and the result stays the error.
C14_DrawFailureFatal ==
    [][ /\ (~drawFailed /\ drawFailed') =>
              /\ pc = "draw" /\ pc' = "restore"
              /\ result' = "Err" /\ ~rxAlive'
              /\ appVars' = appVars
              /\ draws' = draws
        /\ drawFailed =>
              /\ ~Running /\ pc' \notin {"draw", "recv"}
              /\ result = "Err" /\ result' = "Err"
              /\ appVars' = appVars
              /\ recvInput' = recvInput /\ recvTicker' = recvTicker
              /\ draws' = draws /\ drawn' = drawn ]_vars

\* a draw failed after a toggle and an update were handled, with an event
\* sent that was never handled
C14_Witness ==
    /\ drawFailed /\ pc = "exited" /\ result = "Err"
    /\ progress_bar_color = Primary /\ background_progress # F64Zero
    /\ ticks > Len(recvTicker)
    /\ ~exit

(* ---- C15 ---------------------------------------------------------------- *)

\* C15: recv never fails: the process never ends by the panic of the unwrap,
\* and whenever the consumer waits on an empty channel a Sender is alive.
C15_RecvNeverFails ==
    /\ result # "Panic"
    /\ (pc = "recv" /\ chan = <<>>) => (inputAlive \/ tickerAlive)

\* the consumer waits on an empty channel after the Input Producer has ended
C15_Witness ==
    /\ readFailed /\ ~inputAlive
    /\ pc = "recv" /\ chan = <<>>
    /\ recvTicker # <<>>

(* ---- C16 ---------------------------------------------------------------- *)

\* C16: with every thread scheduled and no key pressed, unless a draw fails
\* there is a point from which the progress of the App is 1.0 for good, the
\* consumer is Running, and every tick, those sent after the value reached
\* 1.0 included, has been handled (a failed draw, once it happened, stays).
C16_ReachesOne ==
    <>[](\/ drawFailed
         \/ /\ background_progress = F64One /\ Running /\ ~exit
            /\ Len(recvTicker) = MaxRun
            /\ Last(recvTicker).value = F64One)

\* every tick handled, 1.0 held, the consumer Running
C16_Witness ==
    /\ Len(recvTicker) = MaxRun /\ ticks = MaxRun
    /\ recvTicker[MaxRun - 1].value = F64One
    /\ background_progress = F64One
    /\ Running /\ ~drawFailed

(* ---- C17 ---------------------------------------------------------------- *)

\* C17: exit, color and progress change only in a step of the consumer that
\* handles an event; a step of a producer changes nothing of the consumer
\* and changes the channel at most by appending the event it sends.
C17_SingleWriter ==
    [][ /\ appVars' # appVars => (Handling /\ Handled' = Handled + 1)
        /\ ProducerStep =>
              /\ UNCHANGED <<appVars, pc, terminal, result, rxAlive,
                             recvInput, recvTicker, draws, drawn, drawFailed>>
              /\ \/ chan' = chan
                 \/ sentInput' # sentInput
                       /\ chan' = Append(chan, Last(sentInput'))
                 \/ ticks' # ticks
                       /\ chan' = Append(chan, Last(sentTicker')) ]_vars

\* both producers have sent, nothing is handled, the App is as created
C17_Witness ==
    /\ ticks >= 1 /\ sentInput # <<>> /\ Len(chan) = 2
    /\ Handled = 0
    /\ ~exit /\ progress_bar_color = Reset /\ background_progress = F64Zero

(* ---- C18 ---------------------------------------------------------------- *)

\* C18 as stated: after a failed read the Input Producer is ended for good
\* and sends no key; once no pressed 'q' is pending exit never becomes true
\* and the consumer stays Running.
C18_StaysRunning ==
    [][ /\ readFailed =>
              /\ ~inputAlive /\ ~inputAlive'
              /\ sentInput' = sentInput /\ reads' = reads
        /\ (readFailed /\ ~exit /\ NoQuitPending) =>
              /\ ~exit'
              /\ Running => Running' ]_vars

\* C18 amended: after a failed read the Input Producer is ended for good and
\* sends no key; once no pressed 'q' is pending exit never becomes true and
\* the loop is left only by a failed draw; with every thread scheduled,
\* unless a draw fails every ProgressUpdate the ticker sends is handled with
\* the consumer still Running.
C18_ReadFailureFinal ==
    /\ [][ /\ readFailed =>
                 /\ ~inputAlive /\ ~inputAlive'
                 /\ sentInput' = sentInput /\ reads' = reads
           /\ (readFailed /\ ~exit /\ NoQuitPending) =>
                 /\ ~exit'
                 /\ Running => (Running' \/ (pc = "draw" /\ drawFailed'))
           /\ (readFailed /\ ~exit /\ Handling /\ pc' # pc
                  /\ Head(chan).type = "Progress") =>
                 /\ pc' = "draw"
                 /\ background_progress' = Head(chan).value ]_vars
    /\ (readFailed /\ ~exit /\ NoQuitPending /\ Running)
          ~> (\/ drawFailed
              \/ /\ Running /\ ~exit
                 /\ ticks = MaxTicks /\ Len(recvTicker) = MaxTicks
                 /\ background_progress = Last(sentTicker).value)

\* after the read failed the keys sent before it were consumed and a
\* ProgressUpdate was handled, and the App is still Running
C18_Witness ==
    /\ readFailed /\ updateAfterFail
    /\ sentInput # <<>> /\ recvInput = sentInput
    /\ Len(recvTicker) >= 2
    /\ ~exit /\ pc = "draw"

====
